---- MODULE Spec2Model ----
(***************************************************************************)
(* State-machine model of the NFT marketplace contracts:                   *)
(*   NFT            (contracts/src/NFT.sol, an OpenZeppelin ERC721)        *)
(*   NFTMarketplace (contracts/src/Marketplace.sol)                        *)
(* Every action is one whole transaction.  A transaction that reverts      *)
(* leaves the contract storage and all balances as they were (EVM revert)  *)
(* and emits no event: it is a stuttering step.  What a call would answer  *)
(* in a state is given by the ...Err operators, which run the checks of    *)
(* the handler in the order of the code.                                   *)
(*                                                                         *)
(* Six specifications drive the same handlers:                             *)
(*   Spec           one asset, every caller, price, rate and approval      *)
(*   CatalogSpec    three assets and the index, fewer callers and prices   *)
(*   MigrationSpec  the catalogue with setNFTContract                      *)
(*   RegistrySpec   minting on the NFT contract and setMarketplaceAddress  *)
(*   StepSpec       buyNFT statement by statement, with the callbacks of   *)
(*                  buyer and seller                                       *)
(*   TreasurySpec   sales, withdrawals and plain payments to the contract  *)
(***************************************************************************)
EXTENDS Integers, Sequences, FiniteSets, TLC

----------------------------------------------------------------------------
(* Bounds of the model *)

\* number of tokens that may be minted
MaxTokens == 1

\* number of successful sales in one behaviour
MaxSales == 2

\* funds every externally owned account starts with
InitBalance == 1000

\* number of tokens that may be minted in the catalogue specifications
MaxCatalog == 3

----------------------------------------------------------------------------
(* Program constants *)

MAX_FEE == 1000

FEE_DENOMINATOR == 10000

InitialFee == 250

----------------------------------------------------------------------------
(* Accounts *)

\* address(0)
NoAddr == "0x0"

\* address(this) of the NFTMarketplace contract
Mkt == "mkt"

\* the deployer of the marketplace: Ownable(msg.sender)
Operator == "op"

\* externally owned accounts
EOA == {"op", "bob"}

\* a contract account that implements IERC721Receiver, has no payable
\* receive/fallback function, and is driven by the externally owned "bob"
Contracts == {"vault"}

Accounts == EOA \cup Contracts

\* a contract account that does not implement IERC721Receiver and has no
\* payable receive/fallback function, driven by the externally owned "bob"
Relays == {"relay"}

\* a contract account that implements IERC721Receiver and a payable receive
\* function, both of which may call back into the marketplace; driven by the
\* externally owned "bob"
Hooks == {"hook"}

AllAccounts == Accounts \cup Relays \cup Hooks

\* the NFT contract the marketplace constructor deploys (its owner() is the
\* marketplace), and one the operator deploys later with
\* new NFT(address(marketplace)) (its owner() is the operator)
OwnRegistry == "nft0"

NewRegistry == "nft1"

\* tx.origin of a call made by msg.sender `sender`
Origin(sender) == IF sender \in EOA THEN sender ELSE "bob"

\* does a plain value transfer  payable(a).call{value: v}("")  succeed
AcceptsEther(a) == a \in EOA \cup {Mkt} \cup Hooks

\* does ERC721Utils.checkOnERC721Received accept `a` as a receiver
AcceptsToken(a) == a \in EOA \cup Contracts \cup Hooks

----------------------------------------------------------------------------
(* Inputs *)

TokenIds == 0 .. MaxTokens

\* the ids the storage mappings are modelled on
Ids == 0 .. (IF MaxCatalog > MaxTokens THEN MaxCatalog ELSE MaxTokens)

Prices == {0, 30, 1000}

Rates == {0, 250, 1000, 1001}

URIs == {"ipfs://a", "ipfs://b"}

NoURI == ""

ApproveTargets == {NoAddr, Mkt}

NoListing == [seller |-> NoAddr, price |-> 0, isActive |-> FALSE]

----------------------------------------------------------------------------
VARIABLES
    tokenIdCounter,     \* NFT._tokenIdCounter
    owners,             \* ERC721._owners
    tokenApprovals,     \* ERC721._tokenApprovals
    operatorApprovals,  \* ERC721._operatorApprovals, as a set of <<owner, operator>>
    tokenURIs,          \* ERC721URIStorage._tokenURIs
    listings,           \* NFTMarketplace.listings
    listedTokenIds,     \* NFTMarketplace.listedTokenIds
    hasBeenListed,      \* NFTMarketplace._hasBeenListed
    marketplaceFee,     \* NFTMarketplace.marketplaceFee
    nftContract,        \* NFTMarketplace.nftContract
    marketplaceAddress, \* NFT.marketplaceAddress of the contract at nftContract
    balance,            \* ether balance of every account and of the marketplace
    episode,            \* per token: the last of the events NFTListed/NFTSold/NFTDelisted
    nSales,             \* number of NFTSold events emitted
    status,             \* ReentrancyGuard._status of the marketplace
    frame,              \* the buyNFT call that is executing, and its position
    saved,              \* the storage and balances a revert of that call restores
    log,                \* the effects of that call so far, in order
    nested              \* the answer to the last call made from inside a callback

registry == <<tokenIdCounter, owners, tokenApprovals, operatorApprovals, tokenURIs>>

ledger == <<listings, listedTokenIds, hasBeenListed, episode, nSales>>

store == <<registry, ledger, marketplaceFee, nftContract, marketplaceAddress, balance>>

\* the transaction in progress
inflight == <<status, frame, saved, log, nested>>

vars == <<store, inflight>>

\* no call is executing
Idle == [pc |-> "idle", sender |-> NoAddr, id |-> 0, value |-> 0, sellerProceeds |-> 0]

NoSnapshot == [listings |-> << >>, owners |-> << >>, tokenApprovals |-> << >>,
               balance |-> << >>]

Init ==
    /\ tokenIdCounter = 0
    /\ owners = [t \in Ids |-> NoAddr]
    /\ tokenApprovals = [t \in Ids |-> NoAddr]
    /\ operatorApprovals = {}
    /\ tokenURIs = [t \in Ids |-> NoURI]
    /\ listings = [t \in Ids |-> NoListing]
    /\ listedTokenIds = << >>
    /\ hasBeenListed = [t \in Ids |-> FALSE]
    /\ marketplaceFee = InitialFee
    /\ nftContract = OwnRegistry
    /\ marketplaceAddress = Mkt
    /\ balance = [a \in AllAccounts \cup {Mkt} |->
                    IF a \in EOA \cup Hooks THEN InitBalance ELSE 0]
    /\ episode = [t \in Ids |-> "Unlisted"]
    /\ nSales = 0
    /\ status = "NOT_ENTERED"
    /\ frame = Idle
    /\ saved = NoSnapshot
    /\ log = << >>
    /\ nested = "none"

----------------------------------------------------------------------------
(* ERC721 (OpenZeppelin v5), as inherited by NFT *)

\* ERC721._isAuthorized
IsAuthorized(owner, spender, id) ==
    /\ spender # NoAddr
    /\ \/ owner = spender
       \/ <<owner, spender>> \in operatorApprovals
       \/ tokenApprovals[id] = spender

\* ERC721.safeTransferFrom(from, to, id) called by `auth`: the revert reason, or "ok"
TransferErr(auth, from, to, id) ==
    IF to = NoAddr THEN "ERC721InvalidReceiver"
    ELSE IF owners[id] = NoAddr THEN "ERC721NonexistentToken"
    ELSE IF ~IsAuthorized(owners[id], auth, id) THEN "ERC721InsufficientApproval"
    ELSE IF owners[id] # from THEN "ERC721IncorrectOwner"
    ELSE IF ~AcceptsToken(to) THEN "ERC721InvalidReceiver"
    ELSE "ok"

\* ERC721.approve(to, id) called by `sender`
ApproveErr(sender, to, id) ==
    IF owners[id] = NoAddr THEN "ERC721NonexistentToken"
    ELSE IF owners[id] # sender /\ <<owners[id], sender>> \notin operatorApprovals
         THEN "ERC721InvalidApprover"
    ELSE "ok"

Approve(sender, to, id) ==
    LET err == ApproveErr(sender, to, id) IN
    /\ IF err = "ok"
       THEN /\ tokenApprovals' = [tokenApprovals EXCEPT ![id] = to]
            /\ UNCHANGED <<tokenIdCounter, owners, operatorApprovals, tokenURIs,
                           ledger, marketplaceFee, nftContract,
                           marketplaceAddress, balance, inflight>>
       ELSE UNCHANGED vars

\* ERC721.setApprovalForAll(operator, approved) called by `sender`
SetApprovalForAll(sender, operator, approved) ==
    LET err == IF operator = NoAddr THEN "ERC721InvalidOperator" ELSE "ok" IN
    /\ IF err = "ok"
       THEN /\ operatorApprovals' =
                  IF approved THEN operatorApprovals \cup {<<sender, operator>>}
                              ELSE operatorApprovals \ {<<sender, operator>>}
            /\ UNCHANGED <<tokenIdCounter, owners, tokenApprovals, tokenURIs,
                           ledger, marketplaceFee, nftContract,
                           marketplaceAddress, balance, inflight>>
       ELSE UNCHANGED vars

\* ERC721.safeTransferFrom(from, to, id) called directly by `sender`
\* (a transfer that does not go through the marketplace)
TransferFrom(sender, from, to, id) ==
    LET err == TransferErr(sender, from, to, id) IN
    /\ IF err = "ok"
       THEN /\ owners' = [owners EXCEPT ![id] = to]
            /\ tokenApprovals' = [tokenApprovals EXCEPT ![id] = NoAddr]
            /\ UNCHANGED <<tokenIdCounter, operatorApprovals, tokenURIs, ledger,
                           marketplaceFee, nftContract, marketplaceAddress,
                           balance, inflight>>
       ELSE UNCHANGED vars

----------------------------------------------------------------------------
(* NFTMarketplace: minting *)

\* the account NFT.mint hands the new token to
MintRecipient(sender) == Origin(sender)

\* NFT.mintTo(_to, uri) called by the marketplace: _safeMint checks the receiver
MintToErr(to) ==
    IF to = NoAddr \/ ~AcceptsToken(to) THEN "ERC721InvalidReceiver" ELSE "ok"

\* owner() of the NFT contract the marketplace currently uses: the deployer,
\* which is the marketplace itself for the NFT its constructor creates
RegistryOwner == IF nftContract = OwnRegistry THEN Mkt ELSE Operator

\* a mint check that lets every caller through
MintAuthErr_Open(sender) == "ok"

\* msg.sender != marketplaceAddress && msg.sender != owner()
MintAuthErr(sender) ==
    IF sender # marketplaceAddress /\ sender # RegistryOwner
    THEN "NotAuthorizedToMint" ELSE "ok"

\* nftContract.mint / nftContract.mintTo called by the marketplace for `to`
MarketplaceMintErr(to) ==
    IF MintAuthErr(Mkt) # "ok" THEN MintAuthErr(Mkt) ELSE MintToErr(to)

MintNFT(sender, uri) ==
    LET tokenId == tokenIdCounter
        to == MintRecipient(sender)
        err == MarketplaceMintErr(to)
    IN
    /\ IF err = "ok"
       THEN /\ tokenIdCounter' = tokenIdCounter + 1
            /\ owners' = [owners EXCEPT ![tokenId] = to]
            /\ tokenURIs' = [tokenURIs EXCEPT ![tokenId] = uri]
            /\ UNCHANGED <<tokenApprovals, operatorApprovals, ledger,
                           marketplaceFee, nftContract, marketplaceAddress,
                           balance, inflight>>
       ELSE UNCHANGED vars

MintAndListErr(sender, price) ==
    IF price = 0 THEN "PriceMustBeGreaterThanZero" ELSE MarketplaceMintErr(sender)

\* a mintAndList whose _tokenIdCounter++ survives the revert of _safeMint
MintAndList_CounterSurvivesRevert(sender, uri, price) ==
    LET tokenId == tokenIdCounter
        err == MintAndListErr(sender, price)
    IN
    /\ IF err = "ok"
       THEN /\ tokenIdCounter' = tokenIdCounter + 1
            /\ owners' = [owners EXCEPT ![tokenId] = sender]
            /\ tokenURIs' = [tokenURIs EXCEPT ![tokenId] = uri]
            /\ listings' = [listings EXCEPT ![tokenId] =
                              [seller |-> sender, price |-> price, isActive |-> TRUE]]
            /\ listedTokenIds' = Append(listedTokenIds, tokenId)
            /\ hasBeenListed' = [hasBeenListed EXCEPT ![tokenId] = TRUE]
            /\ episode' = [episode EXCEPT ![tokenId] = "Listed"]
            /\ UNCHANGED <<tokenApprovals, operatorApprovals, nSales,
                           marketplaceFee, nftContract, marketplaceAddress,
                           balance, inflight>>
       ELSE IF err = "ERC721InvalidReceiver"
       THEN /\ tokenIdCounter' = tokenIdCounter + 1
            /\ UNCHANGED <<owners, tokenApprovals, operatorApprovals, tokenURIs,
                           ledger, marketplaceFee, nftContract,
                           marketplaceAddress, balance, inflight>>
       ELSE UNCHANGED vars

MintAndList(sender, uri, price) ==
    LET tokenId == tokenIdCounter
        err == MintAndListErr(sender, price)
    IN
    /\ IF err = "ok"
       THEN /\ tokenIdCounter' = tokenIdCounter + 1
            /\ owners' = [owners EXCEPT ![tokenId] = sender]
            /\ tokenURIs' = [tokenURIs EXCEPT ![tokenId] = uri]
            /\ listings' = [listings EXCEPT ![tokenId] =
                              [seller |-> sender, price |-> price, isActive |-> TRUE]]
            /\ listedTokenIds' = Append(listedTokenIds, tokenId)
            /\ hasBeenListed' = [hasBeenListed EXCEPT ![tokenId] = TRUE]
            /\ episode' = [episode EXCEPT ![tokenId] = "Listed"]
            /\ UNCHANGED <<tokenApprovals, operatorApprovals, nSales,
                           marketplaceFee, nftContract, marketplaceAddress,
                           balance, inflight>>
       ELSE UNCHANGED vars

----------------------------------------------------------------------------
(* NFT: minting called directly, and the replacement of the registry *)

\* NFT.mint(uri) called by `sender`, not through the marketplace
NFTMintErr(sender) ==
    IF MintAuthErr(sender) # "ok" THEN MintAuthErr(sender)
    ELSE MintToErr(Origin(sender))

NFTMint(sender, uri) ==
    LET tokenId == tokenIdCounter
        err == NFTMintErr(sender)
    IN
    /\ IF err = "ok"
       THEN /\ tokenIdCounter' = tokenIdCounter + 1
            /\ owners' = [owners EXCEPT ![tokenId] = Origin(sender)]
            /\ tokenURIs' = [tokenURIs EXCEPT ![tokenId] = uri]
            /\ UNCHANGED <<tokenApprovals, operatorApprovals, ledger,
                           marketplaceFee, nftContract, marketplaceAddress,
                           balance, inflight>>
       ELSE UNCHANGED vars

\* NFT.mintTo(to, uri) called by `sender`, not through the marketplace
NFTMintToErr(sender, to) ==
    IF MintAuthErr(sender) # "ok" THEN MintAuthErr(sender)
    ELSE MintToErr(to)

NFTMintTo(sender, to, uri) ==
    LET tokenId == tokenIdCounter
        err == NFTMintToErr(sender, to)
    IN
    /\ IF err = "ok"
       THEN /\ tokenIdCounter' = tokenIdCounter + 1
            /\ owners' = [owners EXCEPT ![tokenId] = to]
            /\ tokenURIs' = [tokenURIs EXCEPT ![tokenId] = uri]
            /\ UNCHANGED <<tokenApprovals, operatorApprovals, ledger,
                           marketplaceFee, nftContract, marketplaceAddress,
                           balance, inflight>>
       ELSE UNCHANGED vars

\* NFT.totalSupply()
totalSupply == tokenIdCounter

SetNFTContractErr(sender, addr) ==
    IF sender # Operator THEN "OwnableUnauthorizedAccount"
    ELSE IF addr = NoAddr THEN "InvalidNFTContract"
    ELSE "ok"

\* setNFTContract(addr): the marketplace keeps its listings, its index and its
\* balance and from now on reads and writes the storage of the contract at
\* `addr`; for a newly deployed NFT that storage is empty
SetNFTContract(sender, addr) ==
    LET err == SetNFTContractErr(sender, addr) IN
    /\ IF err = "ok"
       THEN /\ nftContract' = addr
            /\ IF addr = nftContract
               THEN UNCHANGED <<registry, marketplaceAddress>>
               ELSE /\ marketplaceAddress' = Mkt
                    /\ tokenIdCounter' = 0
                    /\ owners' = [t \in Ids |-> NoAddr]
                    /\ tokenApprovals' = [t \in Ids |-> NoAddr]
                    /\ operatorApprovals' = {}
                    /\ tokenURIs' = [t \in Ids |-> NoURI]
            /\ UNCHANGED <<ledger, marketplaceFee, balance, inflight>>
       ELSE UNCHANGED vars

\* NFT.setMarketplaceAddress: onlyOwner, then the zero address check
SetMarketplaceAddressErr(sender, newMarketplace) ==
    IF sender # RegistryOwner THEN "OwnableUnauthorizedAccount"
    ELSE IF newMarketplace = NoAddr THEN "InvalidMarketplaceAddress"
    ELSE "ok"

SetMarketplaceAddress(sender, newMarketplace) ==
    LET err == SetMarketplaceAddressErr(sender, newMarketplace) IN
    /\ IF err = "ok"
       THEN /\ marketplaceAddress' = newMarketplace
            /\ UNCHANGED <<registry, ledger, marketplaceFee, nftContract,
                           balance, inflight>>
       ELSE UNCHANGED vars

----------------------------------------------------------------------------
(* NFTMarketplace: listing *)

\* listNFT checks without the ownership check
ListErr_NoOwnerCheck(sender, id, price) ==
    IF price = 0 THEN "PriceMustBeGreaterThanZero"
    ELSE IF owners[id] = NoAddr THEN "ERC721NonexistentToken"
    ELSE IF tokenApprovals[id] # Mkt /\ <<sender, Mkt>> \notin operatorApprovals
         THEN "NotApprovedForMarketplace"
    ELSE "ok"

\* listNFT checks that look at the per-asset approval only
ListErr_PerAssetApprovalOnly(sender, id, price) ==
    IF price = 0 THEN "PriceMustBeGreaterThanZero"
    ELSE IF owners[id] = NoAddr THEN "ERC721NonexistentToken"
    ELSE IF owners[id] # sender THEN "NotTokenOwner"
    ELSE IF tokenApprovals[id] # Mkt THEN "NotApprovedForMarketplace"
    ELSE "ok"

\* listNFT checks without the price check
ListErr_NoPriceCheck(sender, id, price) ==
    IF owners[id] = NoAddr THEN "ERC721NonexistentToken"
    ELSE IF owners[id] # sender THEN "NotTokenOwner"
    ELSE IF tokenApprovals[id] # Mkt /\ <<sender, Mkt>> \notin operatorApprovals
         THEN "NotApprovedForMarketplace"
    ELSE "ok"

ListErr(sender, id, price) ==
    IF price = 0 THEN "PriceMustBeGreaterThanZero"
    ELSE IF owners[id] = NoAddr THEN "ERC721NonexistentToken"
    ELSE IF owners[id] # sender THEN "NotTokenOwner"
    ELSE IF tokenApprovals[id] # Mkt /\ <<sender, Mkt>> \notin operatorApprovals
         THEN "NotApprovedForMarketplace"
    ELSE "ok"

\* a listNFT that updates the stored row instead of overwriting it, keeping
\* the seller of an earlier episode
ListNFT_KeepsSeller(sender, id, price) ==
    LET err == ListErr(sender, id, price) IN
    /\ IF err = "ok"
       THEN /\ listings' = [listings EXCEPT ![id] =
                              [seller |-> IF listings[id].seller = NoAddr
                                          THEN sender ELSE listings[id].seller,
                               price |-> price, isActive |-> TRUE]]
            /\ IF ~hasBeenListed[id]
               THEN /\ listedTokenIds' = Append(listedTokenIds, id)
                    /\ hasBeenListed' = [hasBeenListed EXCEPT ![id] = TRUE]
               ELSE UNCHANGED <<listedTokenIds, hasBeenListed>>
            /\ episode' = [episode EXCEPT ![id] = "Listed"]
            /\ UNCHANGED <<registry, nSales, marketplaceFee, nftContract,
                           marketplaceAddress, balance, inflight>>
       ELSE UNCHANGED vars

\* a listNFT that pushes the id to the index at every listing, without the
\* _hasBeenListed test
ListNFT_AlwaysAppends(sender, id, price) ==
    LET err == ListErr(sender, id, price) IN
    /\ IF err = "ok"
       THEN /\ listings' = [listings EXCEPT ![id] =
                              [seller |-> sender, price |-> price, isActive |-> TRUE]]
            /\ listedTokenIds' = Append(listedTokenIds, id)
            /\ hasBeenListed' = [hasBeenListed EXCEPT ![id] = TRUE]
            /\ episode' = [episode EXCEPT ![id] = "Listed"]
            /\ UNCHANGED <<registry, nSales, marketplaceFee, nftContract,
                           marketplaceAddress, balance, inflight>>
       ELSE UNCHANGED vars

ListNFT(sender, id, price) ==
    LET err == ListErr(sender, id, price) IN
    /\ IF err = "ok"
       THEN /\ listings' = [listings EXCEPT ![id] =
                              [seller |-> sender, price |-> price, isActive |-> TRUE]]
            /\ IF ~hasBeenListed[id]
               THEN /\ listedTokenIds' = Append(listedTokenIds, id)
                    /\ hasBeenListed' = [hasBeenListed EXCEPT ![id] = TRUE]
               ELSE UNCHANGED <<listedTokenIds, hasBeenListed>>
            /\ episode' = [episode EXCEPT ![id] = "Listed"]
            /\ UNCHANGED <<registry, nSales, marketplaceFee, nftContract,
                           marketplaceAddress, balance, inflight>>
       ELSE UNCHANGED vars

\* delistNFT checks without the isActive test
DelistErr_NoActiveCheck(sender, id) ==
    IF listings[id].seller # sender THEN "NotTokenOwner" ELSE "ok"

DelistErr(sender, id) ==
    IF ~listings[id].isActive THEN "ListingNotActive"
    ELSE IF listings[id].seller # sender THEN "NotTokenOwner"
    ELSE "ok"

\* a delistNFT that deactivates every listing of the seller
DelistNFT_AllOfSeller(sender, id) ==
    LET err == DelistErr(sender, id) IN
    /\ IF err = "ok"
       THEN /\ listings' = [t \in Ids |->
                              IF listings[t].seller = sender
                              THEN [listings[t] EXCEPT !.isActive = FALSE]
                              ELSE listings[t]]
            /\ episode' = [t \in Ids |->
                              IF listings[t].seller = sender /\ listings[t].isActive
                              THEN "Delisted" ELSE episode[t]]
            /\ UNCHANGED <<registry, listedTokenIds, hasBeenListed, nSales,
                           marketplaceFee, nftContract, marketplaceAddress,
                           balance, inflight>>
       ELSE UNCHANGED vars

\* a delistNFT that deletes the row (delete listings[_tokenId])
DelistNFT_DeletesRow(sender, id) ==
    LET err == DelistErr(sender, id) IN
    /\ IF err = "ok"
       THEN /\ listings' = [listings EXCEPT ![id] = NoListing]
            /\ episode' = [episode EXCEPT ![id] = "Delisted"]
            /\ UNCHANGED <<registry, listedTokenIds, hasBeenListed, nSales,
                           marketplaceFee, nftContract, marketplaceAddress,
                           balance, inflight>>
       ELSE UNCHANGED vars

DelistNFT(sender, id) ==
    LET err == DelistErr(sender, id) IN
    /\ IF err = "ok"
       THEN /\ listings' = [listings EXCEPT ![id].isActive = FALSE]
            /\ episode' = [episode EXCEPT ![id] = "Delisted"]
            /\ UNCHANGED <<registry, listedTokenIds, hasBeenListed, nSales,
                           marketplaceFee, nftContract, marketplaceAddress,
                           balance, inflight>>
       ELSE UNCHANGED vars

\* updateListingPrice checks without the seller check
UpdatePriceErr_NoSellerCheck(sender, id, newPrice) ==
    IF newPrice = 0 THEN "PriceMustBeGreaterThanZero"
    ELSE IF ~listings[id].isActive THEN "ListingNotActive"
    ELSE "ok"

UpdatePriceErr(sender, id, newPrice) ==
    IF newPrice = 0 THEN "PriceMustBeGreaterThanZero"
    ELSE IF ~listings[id].isActive THEN "ListingNotActive"
    ELSE IF listings[id].seller # sender THEN "NotTokenOwner"
    ELSE "ok"

UpdateListingPrice(sender, id, newPrice) ==
    LET err == UpdatePriceErr(sender, id, newPrice) IN
    /\ IF err = "ok"
       THEN /\ listings' = [listings EXCEPT ![id].price = newPrice]
            /\ UNCHANGED <<registry, listedTokenIds, hasBeenListed, episode,
                           nSales, marketplaceFee, nftContract,
                           marketplaceAddress, balance, inflight>>
       ELSE UNCHANGED vars

----------------------------------------------------------------------------
(* NFTMarketplace: settlement *)

\* a fee that takes the rate for a percentage instead of basis points
Fee_InPercent(price, rate) == (price * rate) \div 100

\* a fee rounded up instead of down
Fee_RoundedUp(price, rate) ==
    (price * rate + FEE_DENOMINATOR - 1) \div FEE_DENOMINATOR

\* fee = (listing.price * marketplaceFee) / FEE_DENOMINATOR
Fee(price, rate) == (price * rate) \div FEE_DENOMINATOR

\* buyNFT validations without the self-purchase check
BuyCheckErr_NoSelfCheck(sender, id, value) ==
    IF ~listings[id].isActive THEN "ListingNotActive"
    ELSE IF value # listings[id].price THEN "IncorrectPaymentAmount"
    ELSE "ok"

\* buyNFT validations that only reject an underpayment
BuyCheckErr_AcceptsOverpayment(sender, id, value) ==
    IF ~listings[id].isActive THEN "ListingNotActive"
    ELSE IF sender = listings[id].seller THEN "CannotBuyOwnNFT"
    ELSE IF value < listings[id].price THEN "IncorrectPaymentAmount"
    ELSE "ok"

\* the three validations of buyNFT, in the order of the code
BuyCheckErr(sender, id, value) ==
    IF ~listings[id].isActive THEN "ListingNotActive"
    ELSE IF sender = listings[id].seller THEN "CannotBuyOwnNFT"
    ELSE IF value # listings[id].price THEN "IncorrectPaymentAmount"
    ELSE "ok"

\* a buyNFT that moves the token from whoever owns it now
\* (safeTransferFrom(ownerOf(_tokenId), msg.sender, _tokenId))
BuyErr_FromCurrentOwner(sender, id, value) ==
    LET seller == listings[id].seller
        checks == BuyCheckErr(sender, id, value)
        moved == TransferErr(Mkt, owners[id], sender, id)
    IN
    IF checks # "ok" THEN checks
    ELSE IF moved # "ok" THEN moved
    ELSE IF ~AcceptsEther(seller) THEN "TransferFailed"
    ELSE "ok"

\* the outcome of the whole call: validations, then the token transfer by the
\* marketplace, then the payout to the seller
BuyErr(sender, id, value) ==
    LET seller == listings[id].seller
        checks == BuyCheckErr(sender, id, value)
        moved == TransferErr(Mkt, seller, sender, id)
    IN
    IF checks # "ok" THEN checks
    ELSE IF moved # "ok" THEN moved
    ELSE IF ~AcceptsEther(seller) THEN "TransferFailed"
    ELSE "ok"

\* a buyNFT that forgets to deactivate the listing
BuyNFT_LeavesListingActive(sender, id, value) ==
    LET err == BuyErr(sender, id, value)
        seller == listings[id].seller
        sellerProceeds == listings[id].price - Fee(listings[id].price, marketplaceFee)
        paid == [balance EXCEPT ![sender] = @ - value, ![Mkt] = @ + value]
    IN
    /\ value <= balance[sender]
    /\ err = "ok" => nSales < MaxSales
    /\ IF err = "ok"
       THEN /\ owners' = [owners EXCEPT ![id] = sender]
            /\ tokenApprovals' = [tokenApprovals EXCEPT ![id] = NoAddr]
            /\ balance' = [paid EXCEPT ![Mkt] = @ - sellerProceeds,
                                       ![seller] = @ + sellerProceeds]
            /\ episode' = [episode EXCEPT ![id] = "Sold"]
            /\ nSales' = nSales + 1
            /\ UNCHANGED <<tokenIdCounter, operatorApprovals, tokenURIs,
                           listings, listedTokenIds, hasBeenListed,
                           marketplaceFee, nftContract, marketplaceAddress,
                           inflight>>
       ELSE UNCHANGED vars

\* a buyNFT that does not test the result of the payout: when the seller
\* rejects the funds the sale stands and the proceeds stay in the marketplace
BuyNFT_IgnoresPayoutResult(sender, id, value) ==
    LET err == BuyErr(sender, id, value)
        seller == listings[id].seller
        sellerProceeds == listings[id].price - Fee(listings[id].price, marketplaceFee)
        paid == [balance EXCEPT ![sender] = @ - value, ![Mkt] = @ + value]
    IN
    /\ value <= balance[sender]
    /\ err \in {"ok", "TransferFailed"} => nSales < MaxSales
    /\ IF err \in {"ok", "TransferFailed"}
       THEN /\ listings' = [listings EXCEPT ![id].isActive = FALSE]
            /\ owners' = [owners EXCEPT ![id] = sender]
            /\ tokenApprovals' = [tokenApprovals EXCEPT ![id] = NoAddr]
            /\ balance' = IF err = "ok"
                          THEN [paid EXCEPT ![Mkt] = @ - sellerProceeds,
                                            ![seller] = @ + sellerProceeds]
                          ELSE paid
            /\ episode' = [episode EXCEPT ![id] = "Sold"]
            /\ nSales' = nSales + 1
            /\ UNCHANGED <<tokenIdCounter, operatorApprovals, tokenURIs,
                           listedTokenIds, hasBeenListed, marketplaceFee,
                           nftContract, marketplaceAddress, inflight>>
       ELSE UNCHANGED vars

\* a buyNFT whose transfer keeps the per-asset approval of the token
BuyNFT_KeepsApproval(sender, id, value) ==
    LET err == BuyErr(sender, id, value)
        seller == listings[id].seller
        sellerProceeds == listings[id].price - Fee(listings[id].price, marketplaceFee)
        paid == [balance EXCEPT ![sender] = @ - value, ![Mkt] = @ + value]
    IN
    /\ value <= balance[sender]
    /\ err = "ok" => nSales < MaxSales
    /\ IF err = "ok"
       THEN /\ listings' = [listings EXCEPT ![id].isActive = FALSE]
            /\ owners' = [owners EXCEPT ![id] = sender]
            /\ balance' = [paid EXCEPT ![Mkt] = @ - sellerProceeds,
                                       ![seller] = @ + sellerProceeds]
            /\ episode' = [episode EXCEPT ![id] = "Sold"]
            /\ nSales' = nSales + 1
            /\ UNCHANGED <<tokenIdCounter, tokenApprovals, operatorApprovals,
                           tokenURIs, listedTokenIds, hasBeenListed,
                           marketplaceFee, nftContract, marketplaceAddress,
                           inflight>>
       ELSE UNCHANGED vars

BuyNFT(sender, id, value) ==
    LET err == BuyErr(sender, id, value)
        seller == listings[id].seller
        price == listings[id].price
        fee == Fee(price, marketplaceFee)
        sellerProceeds == price - fee
        \* msg.value reaches the marketplace with the call
        paid == [balance EXCEPT ![sender] = @ - value, ![Mkt] = @ + value]
    IN
    /\ value <= balance[sender]
    /\ err = "ok" => nSales < MaxSales
    /\ IF err = "ok"
       THEN /\ listings' = [listings EXCEPT ![id].isActive = FALSE]
            /\ owners' = [owners EXCEPT ![id] = sender]
            /\ tokenApprovals' = [tokenApprovals EXCEPT ![id] = NoAddr]
            /\ balance' = [paid EXCEPT ![Mkt] = @ - sellerProceeds,
                                       ![seller] = @ + sellerProceeds]
            /\ episode' = [episode EXCEPT ![id] = "Sold"]
            /\ nSales' = nSales + 1
            /\ UNCHANGED <<tokenIdCounter, operatorApprovals, tokenURIs,
                           listedTokenIds, hasBeenListed, marketplaceFee,
                           nftContract, marketplaceAddress, inflight>>
       ELSE UNCHANGED vars

----------------------------------------------------------------------------
(* NFTMarketplace: fees *)

\* setMarketplaceFee checks without the cap
SetFeeErr_NoCap(sender, newFee) ==
    IF sender # Operator THEN "OwnableUnauthorizedAccount" ELSE "ok"

SetFeeErr(sender, newFee) ==
    IF sender # Operator THEN "OwnableUnauthorizedAccount"
    ELSE IF newFee > MAX_FEE THEN "FeeExceedsMaximum"
    ELSE "ok"

SetMarketplaceFee(sender, newFee) ==
    LET err == SetFeeErr(sender, newFee) IN
    /\ IF err = "ok"
       THEN /\ marketplaceFee' = newFee
            /\ UNCHANGED <<registry, ledger, nftContract, marketplaceAddress,
                           balance, inflight>>
       ELSE UNCHANGED vars

\* withdrawFees checks without onlyOwner
WithdrawErr_NoOwnerCheck(sender, to) ==
    IF balance[Mkt] = 0 THEN "TransferFailed"
    ELSE IF ~AcceptsEther(to) THEN "TransferFailed"
    ELSE "ok"

WithdrawErr(sender, to) ==
    IF sender # Operator THEN "OwnableUnauthorizedAccount"
    ELSE IF balance[Mkt] = 0 THEN "TransferFailed"
    ELSE IF ~AcceptsEther(to) THEN "TransferFailed"
    ELSE "ok"

\* the balances after payable(_to).call{value: address(this).balance}("")
AfterWithdraw(to) ==
    LET amount == balance[Mkt]
        sent == [balance EXCEPT ![Mkt] = @ - amount]
    IN [sent EXCEPT ![to] = @ + amount]

WithdrawFees(sender, to) ==
    LET err == WithdrawErr(sender, to) IN
    /\ IF err = "ok"
       THEN /\ balance' = AfterWithdraw(to)
            /\ UNCHANGED <<registry, ledger, marketplaceFee, nftContract,
                           marketplaceAddress, inflight>>
       ELSE UNCHANGED vars

----------------------------------------------------------------------------
Recipients == {Operator, "vault", Mkt}

\* the owners that use setApprovalForAll
BlanketApprovers == {"bob"}

Next ==
    \/ /\ tokenIdCounter < MaxTokens
       /\ \E s \in Accounts, u \in URIs : MintNFT(s, u)
    \/ /\ tokenIdCounter < MaxTokens
       /\ \E s \in Accounts, u \in URIs, p \in Prices : MintAndList(s, u, p)
    \/ \E s \in Accounts, t \in TokenIds, p \in Prices : ListNFT(s, t, p)
    \/ \E s \in Accounts, t \in TokenIds, v \in Prices : BuyNFT(s, t, v)
    \/ \E s \in Accounts, t \in TokenIds : DelistNFT(s, t)
    \/ \E s \in Accounts, t \in TokenIds, p \in Prices : UpdateListingPrice(s, t, p)
    \/ \E s \in Accounts, r \in Rates : SetMarketplaceFee(s, r)
    \/ \E s \in Accounts, to \in Recipients : WithdrawFees(s, to)
    \/ \E s \in Accounts, to \in ApproveTargets, t \in TokenIds : Approve(s, to, t)
    \/ \E s \in BlanketApprovers, b \in BOOLEAN : SetApprovalForAll(s, Mkt, b)
    \/ \E s \in Accounts, to \in Accounts, t \in TokenIds :
          TransferFrom(s, owners[t], to, t)

Spec == Init /\ [][Next]_vars

----------------------------------------------------------------------------
(* The catalogue: several assets, the index and its readers.  The same      *)
(* handlers as above, driven with fewer callers and prices and with the     *)
(* approval for all as the only approval, so that three assets fit.         *)

CatalogSellers == {"op", "bob"}

CatalogAccounts == CatalogSellers \cup Relays

CatalogBuyers == {"bob"}

CatalogPrices == {0, 40, 80}

CatalogURI == "ipfs://a"

\* one transaction of the catalogue: `cap` tokens may be minted
CatalogStep(callers, sellers, buyers, ids, prices, cap) ==
    \/ /\ tokenIdCounter < cap
       /\ \E s \in callers : MintNFT(s, CatalogURI)
    \/ /\ tokenIdCounter < cap
       /\ \E s \in callers, p \in prices : MintAndList(s, CatalogURI, p)
    \/ /\ tokenIdCounter < cap
       /\ \E s \in callers : NFTMint(s, CatalogURI)
    \/ /\ tokenIdCounter < cap
       /\ \E s \in callers, to \in callers : NFTMintTo(s, to, CatalogURI)
    \/ \E s \in sellers, t \in ids, p \in prices : ListNFT(s, t, p)
    \/ \E s \in buyers, t \in ids, v \in prices : BuyNFT(s, t, v)
    \/ \E s \in sellers, t \in ids : DelistNFT(s, t)
    \/ \E s \in sellers, t \in ids, p \in prices : UpdateListingPrice(s, t, p)
    \/ \E s \in sellers, b \in BOOLEAN : SetApprovalForAll(s, Mkt, b)
    \/ \E s \in sellers, to \in buyers, t \in ids : TransferFrom(s, s, to, t)

CatalogNext ==
    CatalogStep(CatalogAccounts, CatalogSellers, CatalogBuyers, Ids,
                CatalogPrices, MaxCatalog)

CatalogSpec == Init /\ [][CatalogNext]_vars

\* number of tokens that may be minted in each registry of the migration
MaxMigrated == 2

\* the catalogue with the replacement of the registry by the operator
MigrationNext ==
    \/ CatalogStep(CatalogSellers, CatalogSellers, CatalogBuyers, 0 .. MaxMigrated,
                   CatalogPrices, MaxMigrated)
    \/ \E s \in CatalogSellers, a \in {NoAddr, NewRegistry} : SetNFTContract(s, a)

MigrationSpec == Init /\ [][MigrationNext]_vars

\* the accounts that call the NFT contract directly
RegistryCallers == {"op", "bob", "vault", "relay"}

\* the addresses the registry owner designates as the marketplace
Designated == {NoAddr, Mkt, "bob"}

\* the registry on its own: minting through the marketplace and directly, the
\* designation of the minting marketplace and the replacement of the registry
RegistryNext ==
    \/ /\ tokenIdCounter < MaxMigrated
       /\ \E s \in RegistryCallers : MintNFT(s, CatalogURI)
    \/ /\ tokenIdCounter < MaxMigrated
       /\ \E s \in RegistryCallers, p \in CatalogPrices : MintAndList(s, CatalogURI, p)
    \/ /\ tokenIdCounter < MaxMigrated
       /\ \E s \in RegistryCallers : NFTMint(s, CatalogURI)
    \/ /\ tokenIdCounter < MaxMigrated
       /\ \E s \in RegistryCallers, to \in RegistryCallers : NFTMintTo(s, to, CatalogURI)
    \/ \E s \in RegistryCallers, a \in {NoAddr, NewRegistry} : SetNFTContract(s, a)
    \/ \E s \in RegistryCallers, a \in Designated : SetMarketplaceAddress(s, a)

RegistrySpec == Init /\ [][RegistryNext]_vars

----------------------------------------------------------------------------
(* buyNFT statement by statement.  One call is followed from its entry to   *)
(* its return or revert; between its statements the contract it calls       *)
(* (the buyer in onERC721Received, the seller in receive) runs and may call *)
(* the marketplace again.                                                    *)

\* one entry of the log
Effect(op, id, from, to, amount) ==
    [op |-> op, tokenId |-> id, from |-> from, to |-> to, amount |-> amount]

\* revert: every write and every value transfer of the call is undone
Abort ==
    /\ listings' = saved.listings
    /\ owners' = saved.owners
    /\ tokenApprovals' = saved.tokenApprovals
    /\ balance' = saved.balance
    /\ status' = "NOT_ENTERED"
    /\ frame' = Idle
    /\ saved' = NoSnapshot
    /\ log' = << >>
    /\ nested' = "none"
    /\ UNCHANGED <<tokenIdCounter, operatorApprovals, tokenURIs, listedTokenIds,
                   hasBeenListed, episode, nSales, marketplaceFee, nftContract,
                   marketplaceAddress>>

\* what the call leaves alone while it runs
BuyFrame == <<tokenIdCounter, operatorApprovals, tokenURIs, listedTokenIds,
              hasBeenListed, marketplaceFee, nftContract, marketplaceAddress>>

\* the call arrives with msg.value and passes nonReentrant
BuyEnter(sender, id, value) ==
    /\ frame.pc = "idle"
    /\ status = "NOT_ENTERED"
    /\ value <= balance[sender]
    /\ nSales < MaxSales
    /\ status' = "ENTERED"
    /\ balance' = [balance EXCEPT ![sender] = @ - value, ![Mkt] = @ + value]
    /\ saved' = [listings |-> listings, owners |-> owners,
                 tokenApprovals |-> tokenApprovals, balance |-> balance]
    /\ frame' = [pc |-> "validate", sender |-> sender, id |-> id, value |-> value,
                 sellerProceeds |-> 0]
    /\ log' = << >>
    /\ nested' = "none"
    /\ UNCHANGED <<listings, owners, tokenApprovals, episode, nSales, BuyFrame>>

\* the three validations
BuyValidate ==
    LET err == BuyCheckErr(frame.sender, frame.id, frame.value) IN
    /\ frame.pc = "validate"
    /\ IF err = "ok"
       THEN /\ frame' = [frame EXCEPT !.pc = "deactivate"]
            /\ log' = Append(log, Effect("validated", frame.id, NoAddr, NoAddr, 0))
            /\ UNCHANGED <<listings, owners, tokenApprovals, balance, episode,
                           nSales, BuyFrame, status, saved, nested>>
       ELSE Abort

\* a buyNFT that goes on to the transfer with the listing still active
BuyDeactivate_Late ==
    LET price == listings[frame.id].price
        fee == Fee(price, marketplaceFee)
    IN
    /\ frame.pc = "deactivate"
    /\ frame' = [frame EXCEPT !.pc = "transfer", !.sellerProceeds = price - fee]
    /\ log' = Append(log, Effect("deactivated", frame.id, NoAddr, NoAddr, 0))
    /\ UNCHANGED <<listings, owners, tokenApprovals, balance, episode, nSales,
                   BuyFrame, status, saved, nested>>

\* listing.isActive = false; fee and sellerProceeds
BuyDeactivate ==
    LET price == listings[frame.id].price
        fee == Fee(price, marketplaceFee)
    IN
    /\ frame.pc = "deactivate"
    /\ listings' = [listings EXCEPT ![frame.id].isActive = FALSE]
    /\ frame' = [frame EXCEPT !.pc = "transfer", !.sellerProceeds = price - fee]
    /\ log' = Append(log, Effect("deactivated", frame.id, NoAddr, NoAddr, 0))
    /\ UNCHANGED <<owners, tokenApprovals, balance, episode, nSales, BuyFrame,
                   status, saved, nested>>

\* nftContract.safeTransferFrom(listing.seller, msg.sender, _tokenId), up to
\* the call of onERC721Received on a buyer that runs code there
BuyTransfer ==
    LET seller == listings[frame.id].seller
        err == TransferErr(Mkt, seller, frame.sender, frame.id)
    IN
    /\ frame.pc = "transfer"
    /\ IF err = "ok"
       THEN /\ owners' = [owners EXCEPT ![frame.id] = frame.sender]
            /\ tokenApprovals' = [tokenApprovals EXCEPT ![frame.id] = NoAddr]
            /\ frame' = [frame EXCEPT !.pc = IF frame.sender \in Hooks
                                             THEN "onERC721Received" ELSE "payout"]
            /\ log' = Append(log, Effect("transferred", frame.id, seller,
                                         frame.sender, 0))
            /\ UNCHANGED <<listings, balance, episode, nSales, BuyFrame, status,
                           saved, nested>>
       ELSE Abort

\* payable(listing.seller).call{value: sellerProceeds}(""), up to the receive
\* function of a seller that runs code there
BuyPayout ==
    LET seller == listings[frame.id].seller IN
    /\ frame.pc = "payout"
    /\ IF AcceptsEther(seller)
       THEN /\ balance' = [balance EXCEPT ![Mkt] = @ - frame.sellerProceeds,
                                          ![seller] = @ + frame.sellerProceeds]
            /\ frame' = [frame EXCEPT !.pc = IF seller \in Hooks
                                             THEN "receive" ELSE "emit"]
            /\ log' = Append(log, Effect("paid", frame.id, Mkt, seller,
                                         frame.sellerProceeds))
            /\ UNCHANGED <<listings, owners, tokenApprovals, episode, nSales,
                           BuyFrame, status, saved, nested>>
       ELSE Abort

\* the contract whose callback is running
Callee ==
    IF frame.pc = "onERC721Received" THEN frame.sender
    ELSE listings[frame.id].seller

\* a buyNFT without the nonReentrant modifier, called from a callback
NestedBuyErr_NoGuard(sender, id, value) == BuyErr(sender, id, value)

\* buyNFT called while another call of the marketplace is executing:
\* nonReentrant comes before the body
NestedBuyErr(sender, id, value) ==
    IF status = "ENTERED" THEN "ReentrancyGuardReentrantCall"
    ELSE BuyErr(sender, id, value)

\* the callback calls buyNFT{value}(id) and keeps the answer
Reenter(id, value) ==
    LET buyer == Callee
        err == NestedBuyErr(buyer, id, value)
        seller == listings[id].seller
        price == listings[id].price
        fee == Fee(price, marketplaceFee)
    IN
    /\ frame.pc \in {"onERC721Received", "receive"}
    /\ value <= balance[buyer]
    /\ nested' = err
    /\ IF err = "ok"
       THEN /\ listings' = [listings EXCEPT ![id].isActive = FALSE]
            /\ owners' = [owners EXCEPT ![id] = buyer]
            /\ tokenApprovals' = [tokenApprovals EXCEPT ![id] = NoAddr]
            /\ balance' = [balance EXCEPT ![buyer] = @ - value,
                                          ![Mkt] = @ + fee,
                                          ![seller] = @ + (price - fee)]
            /\ log' = log \o <<Effect("transferred", id, seller, buyer, 0),
                               Effect("paid", id, Mkt, seller, price - fee),
                               Effect("NFTSold", id, seller, buyer, price)>>
       ELSE UNCHANGED <<listings, owners, tokenApprovals, balance, log>>
    /\ UNCHANGED <<episode, nSales, BuyFrame, status, frame, saved>>

\* the callback returns normally
CallbackReturn ==
    /\ frame.pc \in {"onERC721Received", "receive"}
    /\ frame' = [frame EXCEPT !.pc = IF frame.pc = "onERC721Received"
                                     THEN "payout" ELSE "emit"]
    /\ UNCHANGED <<listings, owners, tokenApprovals, balance, episode, nSales,
                   BuyFrame, status, saved, log, nested>>

\* the callback reverts: safeTransferFrom reverts with it, and a failed
\* payout is answered with TransferFailed
CallbackRevert ==
    /\ frame.pc \in {"onERC721Received", "receive"}
    /\ Abort

\* emit NFTSold(_tokenId, listing.seller, msg.sender, listing.price)
BuyEmit ==
    /\ frame.pc = "emit"
    /\ log' = Append(log, Effect("NFTSold", frame.id, listings[frame.id].seller,
                                 frame.sender, listings[frame.id].price))
    /\ episode' = [episode EXCEPT ![frame.id] = "Sold"]
    /\ nSales' = nSales + 1
    /\ frame' = [frame EXCEPT !.pc = "exit"]
    /\ UNCHANGED <<listings, owners, tokenApprovals, balance, BuyFrame, status,
                   saved, nested>>

\* the end of nonReentrant and the return
BuyExit ==
    /\ frame.pc = "exit"
    /\ status' = "NOT_ENTERED"
    /\ frame' = Idle
    /\ saved' = NoSnapshot
    /\ log' = << >>
    /\ nested' = "none"
    /\ UNCHANGED <<listings, owners, tokenApprovals, balance, episode, nSales,
                   BuyFrame>>

StepSellers == {"op", "hook"}

StepBuyers == {"bob", "hook", "relay"}

StepPrices == {30, 1000}

\* whole transactions while no call is executing, and the statements of one
\* buyNFT call
StepNext ==
    \/ /\ frame.pc = "idle"
       /\ tokenIdCounter < MaxTokens
       /\ \E s \in StepSellers, p \in StepPrices : MintAndList(s, CatalogURI, p)
    \/ /\ frame.pc = "idle"
       /\ \E s \in StepSellers \cup StepBuyers, to \in ApproveTargets, t \in TokenIds :
             Approve(s, to, t)
    \/ /\ frame.pc = "idle"
       /\ \E s \in StepSellers \cup StepBuyers, t \in TokenIds, p \in StepPrices :
             ListNFT(s, t, p)
    \/ \E s \in StepSellers \cup StepBuyers, t \in TokenIds, v \in StepPrices :
          BuyEnter(s, t, v)
    \/ BuyValidate
    \/ BuyDeactivate
    \/ BuyTransfer
    \/ BuyPayout
    \/ \E t \in TokenIds, v \in StepPrices : Reenter(t, v)
    \/ CallbackReturn
    \/ CallbackRevert
    \/ BuyEmit
    \/ BuyExit

StepSpec == Init /\ [][StepNext]_vars

----------------------------------------------------------------------------
(* The treasury: what the marketplace holds and withdrawFees pays out *)

\* receive() external payable {}: a plain payment of `value` by `sender`
Receive(sender, value) ==
    /\ value <= balance[sender]
    /\ balance' = [balance EXCEPT ![sender] = @ - value, ![Mkt] = @ + value]
    /\ UNCHANGED <<registry, ledger, marketplaceFee, nftContract,
                   marketplaceAddress, inflight>>

\* the amounts sent as plain payments
Donations == {400}

TreasuryPrices == {1000}

TreasuryNext ==
    \/ /\ tokenIdCounter < MaxTokens
       /\ \E s \in EOA, p \in TreasuryPrices : MintAndList(s, CatalogURI, p)
    \/ \E s \in EOA, t \in TokenIds : Approve(s, Mkt, t)
    \/ \E s \in EOA, t \in TokenIds, p \in TreasuryPrices : ListNFT(s, t, p)
    \/ \E s \in EOA, t \in TokenIds, v \in TreasuryPrices : BuyNFT(s, t, v)
    \/ \E s \in EOA, r \in Rates : SetMarketplaceFee(s, r)
    \/ \E s \in EOA, to \in Recipients : WithdrawFees(s, to)
    \/ \E s \in EOA, v \in Donations : Receive(s, v)

TreasurySpec == Init /\ [][TreasuryNext]_vars

----------------------------------------------------------------------------
(* Read operations *)

\* getListing(_tokenId)
getListing(id) == <<listings[id].seller, listings[id].price, listings[id].isActive>>

\* type(uint256).max, brought down to the largest integer the checker computes with
UintMax == 2147483647

\* the first loop of getActiveListings and the loop of getActiveListingCount,
\* from position i (1-based) with `count` counted so far
RECURSIVE CountActiveFrom(_, _)
CountActiveFrom(i, count) ==
    IF i > Len(listedTokenIds) THEN count
    ELSE CountActiveFrom(i + 1, IF listings[listedTokenIds[i]].isActive
                                THEN count + 1 ELSE count)

\* getActiveListingCount()
getActiveListingCount == CountActiveFrom(1, 0)

\* getTotalListedCount()
getTotalListedCount == Len(listedTokenIds)

\* new uint256[](n), new address[](n): arrays of n zero values
RECURSIVE PadTo(_, _, _)
PadTo(out, n, zero) == IF Len(out) >= n THEN out ELSE PadTo(Append(out, zero), n, zero)

\* the second loop of getActiveListings, from position i (1-based), with
\* currentIndex active entries passed and `out` written so far
RECURSIVE PopulateFrom(_, _, _, _, _)
PopulateFrom(i, currentIndex, out, startIndex, resultSize) ==
    IF i > Len(listedTokenIds) \/ Len(out.tokenIds) >= resultSize THEN out
    ELSE LET tokenId == listedTokenIds[i] IN
         IF listings[tokenId].isActive
         THEN PopulateFrom(i + 1, currentIndex + 1,
                  IF currentIndex >= startIndex
                  THEN [out EXCEPT !.tokenIds = Append(@, tokenId),
                                   !.sellers = Append(@, listings[tokenId].seller),
                                   !.prices = Append(@, listings[tokenId].price)]
                  ELSE out,
                  startIndex, resultSize)
         ELSE PopulateFrom(i + 1, currentIndex, out, startIndex, resultSize)

\* getActiveListings(_offset, _limit): the three arrays it returns, or the
\* arithmetic panic of the checked addition _offset + _limit
getActiveListings(offset, limit) ==
    LET activeCount == CountActiveFrom(1, 0)
        none == [err |-> "ok", tokenIds |-> << >>, sellers |-> << >>, prices |-> << >>]
    IN
    IF offset > UintMax - limit
    THEN [none EXCEPT !.err = "Panic(0x11)"]
    ELSE LET startIndex == offset
             endIndex == IF offset + limit > activeCount
                         THEN activeCount ELSE offset + limit
             resultSize == IF endIndex > startIndex THEN endIndex - startIndex ELSE 0
             out == PopulateFrom(1, 0, none, startIndex, resultSize)
         IN [out EXCEPT !.tokenIds = PadTo(@, resultSize, 0),
                        !.sellers = PadTo(@, resultSize, NoAddr),
                        !.prices = PadTo(@, resultSize, 0)]

----------------------------------------------------------------------------
(* Properties of buyNFT *)

\* an account that can attach `value` to a call
CanPay(sender, value) == value <= balance[sender]

\* C1: no double sale.  While the last ledger event of an asset is its sale
\* (it has been bought and not listed again) the listing is inactive and a
\* buy of it by any caller with any payment answers ListingNotActive; so of
\* two buys of one active listing the second one fails.
NoDoubleSale ==
    \A t \in TokenIds :
        episode[t] = "Sold" =>
            /\ ~listings[t].isActive
            /\ \A s \in Accounts, v \in Prices :
                   BuyErr(s, t, v) = "ListingNotActive"

\* a sold asset whose recorded price a third account could pay again
NoDoubleSaleWitness ==
    \E t \in TokenIds, s \in Accounts :
        /\ episode[t] = "Sold"
        /\ s # listings[t].seller
        /\ CanPay(s, listings[t].price)

\* C2: buy is all-or-nothing.  A buy that fails, at whatever step (validation,
\* asset transfer, payout), changes nothing: no step that changes a listing,
\* an owner, an approval, the index or a balance is a failed buy.
BuyAllOrNothing ==
    [][\/ UNCHANGED vars
       \/ \A s \in Accounts, t \in TokenIds, v \in Prices :
             ~(BuyErr(s, t, v) # "ok" /\ BuyNFT(s, t, v))]_vars

\* a state in which a buy passes the validations and the asset transfer but
\* the seller rejects the payout, and one in which the registry rejects the
\* transfer
BuyAllOrNothingWitness ==
    /\ \E s \in Accounts, t \in TokenIds, v \in Prices :
          CanPay(s, v) /\ BuyErr(s, t, v) = "TransferFailed"

\* C3: a successful buy at price p under fee rate r makes the buyer the
\* owner, deactivates the listing, debits the buyer p, credits the seller
\* p - floor(p*r/10000) and the marketplace floor(p*r/10000).
BuySettlesExactly ==
    [][nSales' = nSales + 1 =>
       \A s \in Accounts, t \in TokenIds, v \in Prices :
          BuyNFT(s, t, v) =>
             LET p == listings[t].price
                 seller == listings[t].seller
                 fee == (p * marketplaceFee) \div 10000
             IN
             /\ owners'[t] = s
             /\ ~listings'[t].isActive
             /\ balance'[s] = balance[s] - p
             /\ balance'[seller] = balance[seller] + (p - fee)
             /\ balance'[Mkt] = balance[Mkt] + fee
             /\ fee * 10000 <= p * marketplaceFee
             /\ p * marketplaceFee < (fee + 1) * 10000
             /\ (p = 1000 /\ marketplaceFee = 250) =>
                   /\ balance'[seller] = balance[seller] + 975
                   /\ balance'[Mkt] = balance[Mkt] + 25]_vars

\* two sales have happened, the last one at a price whose fee is rounded
BuySettlesExactlyWitness ==
    \E t \in TokenIds :
        /\ nSales = 2
        /\ episode[t] = "Sold"
        /\ listings[t].price = 30
        /\ balance[Mkt] > 0

\* C4: a buy by the seller of an active listing answers CannotBuyOwnNFT
\* (SelfPurchase) whatever the payment, and changes nothing.
SelfPurchaseRejected ==
    /\ [](\A s \in Accounts, t \in TokenIds, v \in Prices :
            (listings[t].isActive /\ s = listings[t].seller) =>
                BuyErr(s, t, v) = "CannotBuyOwnNFT")
    /\ [][\/ UNCHANGED vars
          \/ \A s \in Accounts, t \in TokenIds, v \in Prices :
                ~(listings[t].isActive /\ s = listings[t].seller
                      /\ BuyNFT(s, t, v))]_vars

\* an active, purchasable listing whose seller can pay its price
SelfPurchaseRejectedWitness ==
    \E t \in TokenIds :
        /\ listings[t].isActive
        /\ CanPay(listings[t].seller, listings[t].price)
        /\ owners[t] = listings[t].seller
        /\ tokenApprovals[t] = Mkt
        /\ AcceptsEther(listings[t].seller)

\* C5: a buy of an active listing by a non-seller with a payment other than
\* the price, lower or higher, answers IncorrectPaymentAmount
\* (WrongPaymentAmount) and changes nothing.
ExactPaymentRequired ==
    /\ [](\A s \in Accounts, t \in TokenIds, v \in Prices :
            (listings[t].isActive /\ s # listings[t].seller
                 /\ v # listings[t].price) =>
                BuyErr(s, t, v) = "IncorrectPaymentAmount")
    /\ [][\/ UNCHANGED vars
          \/ \A s \in Accounts, t \in TokenIds, v \in Prices :
                ~(listings[t].isActive /\ s # listings[t].seller
                      /\ v # listings[t].price /\ BuyNFT(s, t, v))]_vars

\* an active, purchasable listing and a non-seller who can overpay it
ExactPaymentRequiredWitness ==
    \E t \in TokenIds, s \in Accounts, v \in Prices :
        /\ listings[t].isActive
        /\ s # listings[t].seller
        /\ v > listings[t].price
        /\ CanPay(s, v)
        /\ BuyErr(s, t, listings[t].price) = "ok"

----------------------------------------------------------------------------
(* Properties of listNFT, mintAndList and mintNFT *)

\* nftContract.getApproved(id) == address(this)
\*   || nftContract.isApprovedForAll(owner, address(this))
MarketplaceApproved(owner, id) ==
    tokenApprovals[id] = Mkt \/ <<owner, Mkt>> \in operatorApprovals

\* C6 as stated: listNFT by any caller who is not the owner of the (minted)
\* asset answers NotTokenOwner (NotOwner), whatever the price.
NonOwnerListingAnswersNotOwner ==
    \A s \in Accounts, t \in TokenIds, p \in Prices :
        (owners[t] # NoAddr /\ owners[t] # s) =>
            ListErr(s, t, p) = "NotTokenOwner"

\* C6 amended: listNFT by a caller who is not the owner always fails and
\* changes no listing row and no index entry; it answers NotTokenOwner when
\* the price is positive and the asset is minted (a zero price is answered
\* first, with PriceMustBeGreaterThanZero).
NonOwnerListingRejected ==
    /\ [](\A s \in Accounts, t \in TokenIds, p \in Prices :
            owners[t] # s =>
                /\ ListErr(s, t, p) # "ok"
                /\ (p > 0 /\ owners[t] # NoAddr) =>
                       ListErr(s, t, p) = "NotTokenOwner")
    /\ [][\/ UNCHANGED vars
          \/ \A s \in Accounts, t \in TokenIds, p \in Prices :
                ~(owners[t] # s /\ ListNFT(s, t, p))]_vars

\* an active listing by the real owner, whom the marketplace may act for
NonOwnerListingRejectedWitness ==
    \E t \in TokenIds :
        /\ listings[t].isActive
        /\ owners[t] = listings[t].seller
        /\ MarketplaceApproved(owners[t], t)

\* C7 as stated: listNFT by the owner answers NotApprovedForMarketplace
\* exactly when the marketplace has neither approval, and succeeds otherwise,
\* whatever the price.
OwnerListingDecidedByApproval ==
    \A s \in Accounts, t \in TokenIds, p \in Prices :
        (owners[t] = s) =>
            ListErr(s, t, p) = IF MarketplaceApproved(s, t)
                               THEN "ok" ELSE "NotApprovedForMarketplace"

\* C7 amended: with a positive price, listNFT by the owner answers
\* NotApprovedForMarketplace, changing nothing, exactly when the marketplace
\* is neither the per-asset approved address nor an approved-for-all operator
\* of the owner; with either approval alone it succeeds.
OwnerListingNeedsApproval ==
    /\ [](\A s \in Accounts, t \in TokenIds, p \in Prices \ {0} :
            (owners[t] = s) =>
                /\ (tokenApprovals[t] = Mkt => ListErr(s, t, p) = "ok")
                /\ (<<s, Mkt>> \in operatorApprovals => ListErr(s, t, p) = "ok")
                /\ (tokenApprovals[t] # Mkt /\ <<s, Mkt>> \notin operatorApprovals)
                       => ListErr(s, t, p) = "NotApprovedForMarketplace")
    /\ [][\/ UNCHANGED vars
          \/ \A s \in Accounts, t \in TokenIds, p \in Prices \ {0} :
                ~(owners[t] = s /\ ~MarketplaceApproved(s, t)
                      /\ ListNFT(s, t, p))]_vars

\* an asset listed again by its buyer, who has granted the marketplace the
\* approval for all and no per-asset approval
OwnerListingNeedsApprovalWitness ==
    \E t \in TokenIds :
        /\ nSales >= 1
        /\ episode[t] = "Listed"
        /\ listings[t].seller = owners[t]
        /\ tokenApprovals[t] = NoAddr
        /\ <<owners[t], Mkt>> \in operatorApprovals

\* C8: listNFT and mintAndList with price 0 answer PriceMustBeGreaterThanZero
\* (InvalidPrice) for every caller and change nothing (no asset is minted, the
\* id counter does not move); every active listing has a positive price.
PricesArePositive ==
    /\ [](/\ \A s \in Accounts, t \in TokenIds :
                ListErr(s, t, 0) = "PriceMustBeGreaterThanZero"
          /\ \A s \in Accounts :
                MintAndListErr(s, 0) = "PriceMustBeGreaterThanZero"
          /\ \A t \in TokenIds : listings[t].isActive => listings[t].price > 0)
    /\ [][\/ UNCHANGED vars
          \/ \A s \in Accounts :
                /\ \A t \in TokenIds : ~ListNFT(s, t, 0)
                /\ \A u \in URIs : ~MintAndList(s, u, 0)]_vars

\* an approved owner with an active listing: only the price stands between a
\* listNFT(id, 0) and a stored price of 0
PricesArePositiveWitness ==
    \E t \in TokenIds :
        /\ listings[t].isActive
        /\ owners[t] = listings[t].seller
        /\ tokenApprovals[t] = Mkt

\* C9: round trip.  After a successful listNFT(id, p) or mintAndList(uri, p)
\* by s, getListing(id) is (s, p, true) and s still owns the asset.
ListingRoundTrip ==
    [][\/ UNCHANGED vars
       \/ \A s \in Accounts, p \in Prices :
             /\ \A t \in TokenIds :
                   ListNFT(s, t, p) =>
                       /\ getListing(t)' = <<s, p, TRUE>>
                       /\ owners'[t] = s
             /\ \A u \in URIs, t \in {tokenIdCounter} :
                   MintAndList(s, u, p) =>
                       /\ getListing(t)' = <<s, p, TRUE>>
                       /\ owners'[t] = s]_vars

\* an asset that was sold and is listed again by its buyer
ListingRoundTripWitness ==
    \E t \in TokenIds :
        /\ nSales >= 1
        /\ episode[t] = "Listed"
        /\ getListing(t) = <<owners[t], listings[t].price, TRUE>>

\* C10 as stated: after mintNFT(uri) by caller c the new asset is owned by c
\* and its tokenURI is uri.
MintNFTGoesToCaller ==
    [][tokenIdCounter' = tokenIdCounter + 1 =>
          \A s \in Accounts, u \in URIs :
             MintNFT(s, u) =>
                 /\ owners'[tokenIdCounter] = s
                 /\ tokenURIs'[tokenIdCounter] = u]_vars

----------------------------------------------------------------------------
(* Properties of the asset ids *)

\* the ids that have been minted
Minted == {t \in Ids : owners[t] # NoAddr}

\* C11: asset ids.  In every state the minted ids are exactly
\* 0 .. totalSupply-1, so totalSupply is the number of assets minted.  Every
\* step that moves the id counter is one successful mint (NFT.mint, NFT.mintTo,
\* mintNFT or mintAndList): it moves the counter by one and assigns the old
\* counter value, an id that had no owner, leaving every other asset to its
\* owner.  A mint that fails, by its checks or in _safeMint, moves nothing.
IdsAreSequential ==
    /\ [](/\ Minted = 0 .. (totalSupply - 1)
          /\ totalSupply = Cardinality(Minted))
    /\ [][\/ tokenIdCounter' = tokenIdCounter
          \/ /\ tokenIdCounter' = tokenIdCounter + 1
             /\ owners[tokenIdCounter] = NoAddr
             /\ owners'[tokenIdCounter] # NoAddr
             /\ \A t \in Ids \ {tokenIdCounter} : owners'[t] = owners[t]
             /\ \A s \in CatalogAccounts :
                   /\ \A p \in CatalogPrices :
                         ~(MintAndListErr(s, p) # "ok"
                             /\ MintAndList(s, CatalogURI, p))
                   /\ ~(NFTMintErr(s) # "ok" /\ NFTMint(s, CatalogURI))
                   /\ \A to \in CatalogAccounts :
                         ~(NFTMintToErr(s, to) # "ok"
                             /\ NFTMintTo(s, to, CatalogURI))]_vars

\* every id of the catalogue is minted, to different owners, in a state in
\* which a mintAndList would fail in _safeMint and a direct mint is refused
IdsAreSequentialWitness ==
    /\ totalSupply = MaxCatalog
    /\ owners[0] # owners[1]
    /\ hasBeenListed[1] /\ ~hasBeenListed[0]
    /\ MintAndListErr("relay", 40) = "ERC721InvalidReceiver"
    /\ NFTMintErr("op") = "NotAuthorizedToMint"

----------------------------------------------------------------------------
(* Properties of delistNFT and updateListingPrice *)

\* C12: delistNFT answers ListingNotActive on an inactive or never-listed
\* asset, NotTokenOwner (NotSeller) on an active listing when the caller is
\* not its seller, and succeeds for the seller of an active listing.  A
\* delist that takes effect is one by the seller of an active listing: it
\* sets isActive to false, keeps seller and price, and leaves every owner,
\* every other listing and the index as they were.
DelistOnlyBySeller ==
    /\ [](\A s \in Accounts, t \in TokenIds :
            DelistErr(s, t) =
                IF ~listings[t].isActive THEN "ListingNotActive"
                ELSE IF s # listings[t].seller THEN "NotTokenOwner"
                ELSE "ok")
    /\ [][\/ UNCHANGED vars
          \/ \A s \in Accounts, t \in TokenIds :
                DelistNFT(s, t) =>
                    /\ listings[t].isActive
                    /\ s = listings[t].seller
                    /\ listings'[t] = [seller |-> listings[t].seller,
                                       price |-> listings[t].price,
                                       isActive |-> FALSE]
                    /\ \A u \in Ids \ {t} : listings'[u] = listings[u]
                    /\ owners' = owners
                    /\ listedTokenIds' = listedTokenIds]_vars

\* a delisted asset, still owned by the seller whose terms the row keeps,
\* next to an asset that was never listed
DelistOnlyBySellerWitness ==
    \E t \in TokenIds, u \in TokenIds :
        /\ episode[t] = "Delisted"
        /\ ~listings[t].isActive
        /\ listings[t].seller = owners[t]
        /\ listings[t].price > 0
        /\ listings[u] = NoListing

\* C13: updateListingPrice answers PriceMustBeGreaterThanZero (InvalidPrice)
\* for a new price of 0, else ListingNotActive when there is no active
\* listing, else NotTokenOwner (NotSeller) when the caller is not the seller.
\* An update that takes effect is one by the seller of an active listing with
\* a positive price: it stores the price and leaves seller, isActive, every
\* other listing and the index as they were.  Hence whenever a listing becomes
\* active or an active listing gets another price, the step is a listNFT,
\* mintAndList or updateListingPrice by its seller with that price.
PriceChosenBySeller ==
    /\ [](\A s \in Accounts, t \in TokenIds, p \in Prices :
            UpdatePriceErr(s, t, p) =
                IF p = 0 THEN "PriceMustBeGreaterThanZero"
                ELSE IF ~listings[t].isActive THEN "ListingNotActive"
                ELSE IF s # listings[t].seller THEN "NotTokenOwner"
                ELSE "ok")
    /\ [][\/ UNCHANGED vars
          \/ /\ \A s \in Accounts, t \in TokenIds, p \in Prices :
                   UpdateListingPrice(s, t, p) =>
                       /\ listings[t].isActive
                       /\ s = listings[t].seller
                       /\ p > 0
                       /\ listings'[t] = [seller |-> s, price |-> p,
                                          isActive |-> TRUE]
                       /\ \A u \in Ids \ {t} : listings'[u] = listings[u]
                       /\ listedTokenIds' = listedTokenIds
             /\ \A t \in TokenIds :
                   (/\ listings'[t].isActive
                    /\ \/ ~listings[t].isActive
                       \/ listings'[t].price # listings[t].price) =>
                       \E s \in {listings'[t].seller}, p \in {listings'[t].price} :
                           /\ p > 0
                           /\ \/ UpdateListingPrice(s, t, p)
                              \/ ListNFT(s, t, p)
                              \/ \E u \in URIs : MintAndList(s, u, p)]_vars

\* an active listing whose seller no longer owns the asset (it was transferred
\* after the listing): the seller cannot list it again, only reprice it
PriceChosenBySellerWitness ==
    \E t \in TokenIds :
        /\ listings[t].isActive
        /\ owners[t] # listings[t].seller
        /\ listings[t].price = 1000
        /\ UpdatePriceErr(listings[t].seller, t, 30) = "ok"
        /\ UpdatePriceErr(owners[t], t, 30) = "NotTokenOwner"

----------------------------------------------------------------------------
(* Properties of the index and of its readers *)

\* the assets whose listing is active
ActiveIds == {t \in Ids : listings[t].isActive}

\* C14: one active listing per asset.  What getActiveListings returns for the
\* whole index names every asset with an active listing once, with the one
\* seller and the one price getListing gives for it; and a listNFT of an
\* asset whose listing is active replaces the seller and the price of that
\* listing, adding no index entry and no active listing.
OneActiveListingPerAsset ==
    /\ [](LET all == getActiveListings(0, Len(listedTokenIds))
              n == Len(all.tokenIds)
          IN
          /\ all.err = "ok"
          /\ \A i \in 1 .. n, j \in 1 .. n :
                all.tokenIds[i] = all.tokenIds[j] => i = j
          /\ {all.tokenIds[i] : i \in 1 .. n} = ActiveIds
          /\ \A i \in 1 .. n :
                getListing(all.tokenIds[i]) = <<all.sellers[i], all.prices[i], TRUE>>)
    /\ [][\/ listings' = listings
          \/ \A s \in CatalogSellers, t \in Ids, p \in CatalogPrices :
                (listings[t].isActive /\ ListNFT(s, t, p)) =>
                    /\ getListing(t)' = <<s, p, TRUE>>
                    /\ \A u \in Ids \ {t} : listings'[u] = listings[u]
                    /\ listedTokenIds' = listedTokenIds
                    /\ ActiveIds' = ActiveIds
                    /\ getActiveListingCount' = getActiveListingCount]_vars

\* a full index with active listings by two sellers and no sale so far, the
\* first-listed asset being listed by bob
OneActiveListingPerAssetWitness ==
    \E t \in Ids, u \in Ids :
        /\ nSales = 0
        /\ listings[t].isActive /\ listings[t].seller = "bob"
        /\ owners[t] = "bob"
        /\ listedTokenIds[1] = t
        /\ listings[u].isActive /\ listings[u].seller = "op"
        /\ Len(listedTokenIds) = MaxCatalog

\* the assets that have had an active listing: the ones with a ledger event
EverListed == {t \in Ids : episode[t] # "Unlisted"}

\* s is a prefix of t
IsPrefix(s, t) == Len(s) <= Len(t) /\ SubSeq(t, 1, Len(s)) = s

\* C15 as stated: index integrity.  In every state, also after
\* setNFTContract, the index holds every asset that has had an active listing
\* exactly once and getTotalListedCount is the number of such assets; no step
\* removes or reorders an entry.
IndexIntegrity ==
    /\ [](/\ \A i \in 1 .. Len(listedTokenIds), j \in 1 .. Len(listedTokenIds) :
                listedTokenIds[i] = listedTokenIds[j] => i = j
          /\ {listedTokenIds[i] : i \in 1 .. Len(listedTokenIds)} = EverListed
          /\ getTotalListedCount = Cardinality(EverListed))
    /\ [][IsPrefix(listedTokenIds, listedTokenIds')]_vars

\* the index entries whose listing is active, in insertion order
ActiveInOrder == SelectSeq(listedTokenIds, LAMBDA t : listings[t].isActive)

\* the elements at the (0-based) positions offset .. offset+limit-1 of seq
Window(seq, offset, limit) ==
    LET n == Cardinality({k \in 0 .. (Len(seq) - 1) : k >= offset /\ k - offset < limit})
    IN [i \in 1 .. n |-> seq[offset + i]]

\* the offsets and limits of the calls: small ones around the size of the
\* index, and the largest uint256
PageArgs == (0 .. (MaxCatalog + 1)) \cup {UintMax}

\* C16 as stated: pagination.  In every state and for every offset and
\* limit, getActiveListings(offset, limit) returns three sequences of equal
\* length: the window offset .. offset+limit-1 of the active index entries
\* in insertion order, each with its current seller and price.
PaginationCorrect ==
    \A offset \in PageArgs, limit \in PageArgs :
        LET page == getActiveListings(offset, limit)
            ids == Window(ActiveInOrder, offset, limit)
        IN
        /\ page.err = "ok"
        /\ page.tokenIds = ids
        /\ page.sellers = [i \in 1 .. Len(ids) |-> listings[ids[i]].seller]
        /\ page.prices = [i \in 1 .. Len(ids) |-> listings[ids[i]].price]

\* C17 as stated: the active count.  In every state getActiveListingCount is
\* the number of assets whose listing is active; a successful listNFT or
\* mintAndList of an asset without an active listing raises it by one, a
\* successful delistNFT or buyNFT lowers it by one, and updateListingPrice and
\* a listNFT of an asset with an active listing leave it as it is (a failed
\* call changes nothing at all).
ActiveCountExact ==
    /\ [](getActiveListingCount = Cardinality(ActiveIds))
    /\ [][\/ listings' = listings
          \/ LET count == getActiveListingCount IN
             \A s \in CatalogSellers, t \in Ids :
                /\ \A p \in CatalogPrices :
                      /\ ListNFT(s, t, p) =>
                            count' = IF listings[t].isActive THEN count ELSE count + 1
                      /\ (t = tokenIdCounter /\ MintAndList(s, CatalogURI, p)) =>
                            count' = IF listings[t].isActive THEN count ELSE count + 1
                      /\ UpdateListingPrice(s, t, p) => count' = count
                      /\ BuyNFT(s, t, p) => count' = count - 1
                /\ DelistNFT(s, t) => count' = count - 1]_vars

----------------------------------------------------------------------------
(* Properties of the fee rate and of withdrawFees *)

\* C18: the fee rate.  setMarketplaceFee answers OwnableUnauthorizedAccount
\* (Unauthorized) to every caller but the operator, FeeExceedsMaximum
\* (FeeTooHigh) to the operator for a rate above 1000, and succeeds for the
\* operator with a rate in 0 .. 1000.  The rate starts at 250; a step that
\* changes it is a call by the operator with a rate of at most 1000, which
\* becomes the rate; so the rate is always within 0 .. 1000.
FeeRateBounded ==
    /\ marketplaceFee = 250
    /\ [](/\ marketplaceFee \in 0 .. 1000
          /\ \A s \in Accounts, r \in Rates :
                SetFeeErr(s, r) =
                    IF s # Operator THEN "OwnableUnauthorizedAccount"
                    ELSE IF r > 1000 THEN "FeeExceedsMaximum"
                    ELSE "ok")
    /\ [][\/ marketplaceFee' = marketplaceFee
          \/ /\ \E r \in Rates :
                   /\ r <= 1000
                   /\ SetMarketplaceFee(Operator, r)
                   /\ marketplaceFee' = r
             /\ \A s \in Accounts, r \in Rates :
                   SetMarketplaceFee(s, r) => (s = Operator /\ r <= 1000)]_vars

\* the rate at its cap after a sale: a higher rate is refused to the operator
\* and any rate to the others
FeeRateBoundedWitness ==
    /\ marketplaceFee = MAX_FEE
    /\ nSales >= 1
    /\ SetFeeErr(Operator, 1001) = "FeeExceedsMaximum"
    /\ SetFeeErr("bob", 0) = "OwnableUnauthorizedAccount"

\* C19 as stated: withdraw-then-empty.  Whenever withdrawFees(to) by the
\* operator succeeds, it moves the whole balance of the marketplace to `to`
\* and leaves the marketplace with exactly 0, after which (as in every state
\* with a balance of 0) a withdrawFees to any recipient fails, with
\* TransferFailed, the one error the code has for it.
WithdrawThenEmpty ==
    \A to \in Recipients :
        /\ WithdrawErr(Operator, to) = "ok" =>
              /\ AfterWithdraw(to)[Mkt] = 0
              /\ to # Mkt => AfterWithdraw(to)[to] = balance[to] + balance[Mkt]
        /\ balance[Mkt] = 0 => WithdrawErr(Operator, to) = "TransferFailed"

\* C20: withdrawFees answers OwnableUnauthorizedAccount (Unauthorized) to
\* every caller but the operator, whatever the recipient and the balance,
\* and TransferFailed (PayoutFailed) to the operator when the recipient
\* rejects the funds.  Neither moves funds: the balance of the marketplace
\* goes down only in a withdrawFees by the operator to a recipient that
\* accepts the funds, which gets all of it; the send and the reset are one
\* step.
WithdrawGuarded ==
    /\ [](\A to \in Recipients :
            /\ \A s \in Accounts \ {Operator} :
                  WithdrawErr(s, to) = "OwnableUnauthorizedAccount"
            /\ (balance[Mkt] > 0 /\ ~AcceptsEther(to)) =>
                  WithdrawErr(Operator, to) = "TransferFailed")
    /\ [][\/ balance' = balance
          \/ /\ \A s \in Accounts, to \in Recipients :
                   WithdrawFees(s, to) => (s = Operator /\ AcceptsEther(to))
             /\ balance'[Mkt] < balance[Mkt] =>
                   \E to \in Recipients \ {Mkt} :
                       /\ WithdrawFees(Operator, to)
                       /\ balance'[Mkt] = 0
                       /\ balance'[to] = balance[to] + balance[Mkt]]_vars

\* fees of two sales in the marketplace: the operator's withdrawal to the
\* vault, which rejects funds, fails, as does every withdrawal by bob
WithdrawGuardedWitness ==
    /\ nSales = 2
    /\ balance[Mkt] > 25
    /\ WithdrawErr(Operator, "vault") = "TransferFailed"
    /\ WithdrawErr("bob", "op") = "OwnableUnauthorizedAccount"
    /\ WithdrawErr(Operator, "op") = "ok"

----------------------------------------------------------------------------
(* Properties of ownership and approvals *)

\* C21 as stated: once an asset has been sold and the marketplace is neither
\* per-asset approved nor approved for all by its owner, listNFT by the owner
\* answers NotApprovedForMarketplace (NotApproved), whatever the price.
BuyerListingAnswersNotApproved ==
    \A t \in TokenIds, p \in Prices :
        (episode[t] = "Sold" /\ owners[t] # NoAddr
             /\ ~MarketplaceApproved(owners[t], t)) =>
            ListErr(owners[t], t, p) = "NotApprovedForMarketplace"

\* C21 amended: every minted asset has exactly one owner; a step that changes
\* the owner of an asset (a buy, a direct transfer) leaves it without a
\* per-asset approved address; so after a buy the marketplace is not per-asset
\* approved and listNFT by the buyer with a positive price answers
\* NotApprovedForMarketplace unless the buyer has approved the marketplace for
\* all, and only an approval given by the owner ends that.
ApprovalClearedOnOwnerChange ==
    /\ [](\A t \in TokenIds :
            /\ t < tokenIdCounter <=> owners[t] # NoAddr
            /\ owners[t] \in Accounts \cup {NoAddr})
    /\ [][\/ owners' = owners
          \/ \A t \in TokenIds :
                (owners[t] # NoAddr /\ owners'[t] # owners[t]) =>
                    tokenApprovals'[t] = NoAddr]_vars
    /\ [][\/ nSales' = nSales
          \/ \A s \in Accounts, t \in TokenIds, v \in Prices :
                BuyNFT(s, t, v) =>
                    /\ owners'[t] = s
                    /\ tokenApprovals'[t] # Mkt
                    /\ \A p \in Prices \ {0} :
                          ListErr(s, t, p)' =
                              IF <<s, Mkt>> \in operatorApprovals' THEN "ok"
                              ELSE "NotApprovedForMarketplace"]_vars
    /\ [][\/ UNCHANGED <<tokenApprovals, operatorApprovals>>
          \/ \A t \in TokenIds :
                (/\ owners[t] # NoAddr
                 /\ owners'[t] = owners[t]
                 /\ ~MarketplaceApproved(owners[t], t)
                 /\ MarketplaceApproved(owners[t], t)') =>
                    \/ Approve(owners[t], Mkt, t)
                    \/ SetApprovalForAll(owners[t], Mkt, TRUE)]_vars

\* an asset sold under a per-asset approval, now owned by a buyer who has not
\* approved the marketplace
ApprovalClearedOnOwnerChangeWitness ==
    \E t \in TokenIds :
        /\ episode[t] = "Sold"
        /\ owners[t] # listings[t].seller
        /\ tokenApprovals[t] = NoAddr
        /\ <<owners[t], Mkt>> \notin operatorApprovals
        /\ <<listings[t].seller, Mkt>> \notin operatorApprovals

\* the callers NFT.mint and NFT.mintTo turn away
Unauthorized(sender) == sender # marketplaceAddress /\ sender # RegistryOwner

\* C22: mint authorization.  NFT.mint and NFT.mintTo called directly by an
\* account that is neither marketplaceAddress nor owner() answer
\* NotAuthorizedToMint (Unauthorized), mint nothing and leave the id counter
\* alone; setMarketplaceAddress answers OwnableUnauthorizedAccount to every
\* account but owner(), and marketplaceAddress of a registry changes only in a
\* setMarketplaceAddress call made by owner().
MintAuthorization ==
    /\ [](\A s \in RegistryCallers :
            /\ Unauthorized(s) =>
                  /\ NFTMintErr(s) = "NotAuthorizedToMint"
                  /\ \A to \in RegistryCallers :
                        NFTMintToErr(s, to) = "NotAuthorizedToMint"
            /\ s # RegistryOwner =>
                  \A a \in Designated :
                      SetMarketplaceAddressErr(s, a) = "OwnableUnauthorizedAccount")
    /\ [][\/ tokenIdCounter' = tokenIdCounter
          \/ \A s \in RegistryCallers, to \in RegistryCallers :
                Unauthorized(s) =>
                    /\ ~NFTMint(s, CatalogURI)
                    /\ ~NFTMintTo(s, to, CatalogURI)]_vars
    /\ [][\/ marketplaceAddress' = marketplaceAddress
          \/ nftContract' # nftContract
          \/ /\ RegistryOwner \in RegistryCallers
             /\ SetMarketplaceAddress(RegistryOwner, marketplaceAddress')]_vars

\* the owner of the replacement registry has designated another minter, a
\* token has been minted in that registry, and other callers remain
\* unauthorized
MintAuthorizationWitness ==
    /\ nftContract = NewRegistry
    /\ marketplaceAddress = "bob"
    /\ tokenIdCounter >= 1
    /\ \E s \in RegistryCallers : Unauthorized(s)
    /\ MintAuthErr("bob") = "ok"

----------------------------------------------------------------------------
(* Properties of one buyNFT call, statement by statement *)

\* how many entries of the log of the running call record `op`
Times(op) == Cardinality({i \in DOMAIN log : log[i].op = op})

\* C23 as stated: a buyNFT made from the buyer's onERC721Received or from the
\* seller's receive while a buy is executing is answered with
\* ListingNotActive.
ReentrantBuyObservesNotActive ==
    nested # "none" => nested = "ListingNotActive"

\* C23 amended: a buyNFT made from the buyer's onERC721Received or from the
\* seller's receive while a buy is executing fails, with
\* ReentrancyGuardReentrantCall (nonReentrant answers before the listing is
\* read), and changes nothing; so one buy transfers the asset once, pays the
\* seller once and keeps the fee once.
ReentrantBuyRejected ==
    /\ [](nested \in {"none", "ReentrancyGuardReentrantCall"})
    /\ [](frame.pc # "idle" =>
            /\ Times("transferred") <= 1
            /\ Times("paid") <= 1
            /\ Times("NFTSold") <= 1)
    /\ [](frame.pc = "exit" =>
            LET t == frame.id
                seller == saved.listings[t].seller
                p == saved.listings[t].price
                fee == (p * marketplaceFee) \div 10000
            IN
            /\ owners[t] = frame.sender
            /\ balance[frame.sender] = saved.balance[frame.sender] - p
            /\ balance[seller] = saved.balance[seller] + (p - fee)
            /\ balance[Mkt] = saved.balance[Mkt] + fee)
    /\ [][\/ nested' = nested
          \/ nested' = "none"
          \/ UNCHANGED <<store, status, frame, saved, log>>]_vars

\* a buy about to return although a callback tried to buy again
ReentrantBuyRejectedWitness ==
    /\ frame.pc = "exit"
    /\ nested # "none"
    /\ (frame.sender \in Hooks \/ listings[frame.id].seller \in Hooks)

\* the effects of a successful buyNFT, in order
ExpectedLog ==
    LET t == frame.id
        seller == saved.listings[t].seller
        p == saved.listings[t].price
        fee == (p * marketplaceFee) \div 10000
    IN
    << Effect("validated", t, NoAddr, NoAddr, 0),
       Effect("deactivated", t, NoAddr, NoAddr, 0),
       Effect("transferred", t, seller, frame.sender, 0),
       Effect("paid", t, Mkt, seller, p - fee),
       Effect("NFTSold", t, seller, frame.sender, p) >>

\* C24: step ordering inside buyNFT.  Until the three validations have passed
\* nothing is written; the listing is inactive from then on, before the asset
\* moves and before the marketplace pays anything out; the asset is with the
\* buyer before the seller is paid; NFTSold(tokenId, seller, buyer, price) is
\* the last effect of a call that returns and is emitted once.
BuyStepOrder ==
    /\ [](frame.pc # "idle" => IsPrefix(log, ExpectedLog))
    /\ [](frame.pc = "exit" => log = ExpectedLog)
    /\ [](frame.pc = "validate" =>
            /\ listings = saved.listings
            /\ owners = saved.owners
            /\ tokenApprovals = saved.tokenApprovals
            /\ log = << >>)
    /\ [](frame.pc \notin {"idle", "validate", "deactivate"} =>
            ~listings[frame.id].isActive)
    /\ [](frame.pc # "idle" =>
            /\ owners # saved.owners => ~listings[frame.id].isActive
            /\ balance[Mkt] < saved.balance[Mkt] + frame.value =>
                  /\ ~listings[frame.id].isActive
                  /\ owners[frame.id] = frame.sender
                  /\ saved.owners[frame.id] = listings[frame.id].seller)

\* a buy at price 1000 about to return after both callbacks have run
BuyStepOrderWitness ==
    /\ frame.pc = "exit"
    /\ Len(log) = 5
    /\ log[5].amount = 1000
    /\ log[4].amount = 975

----------------------------------------------------------------------------
(* Properties of the treasury *)

\* C25 as stated: the balance withdrawFees pays out changes only in a
\* successful sale, where it grows by the fee of that sale, and in a
\* successful withdrawal by the operator, where it shrinks; no other call of
\* any account changes it.
FeeBalanceOnlyBySaleOrWithdrawal ==
    [][\/ balance'[Mkt] = balance[Mkt]
       \/ \E s \in EOA, t \in TokenIds, v \in TreasuryPrices :
             /\ BuyNFT(s, t, v)
             /\ nSales' = nSales + 1
             /\ balance'[Mkt] = balance[Mkt] + Fee(listings[t].price, marketplaceFee)
       \/ \E to \in Recipients :
             /\ WithdrawFees(Operator, to)
             /\ balance'[Mkt] < balance[Mkt]]_vars

\* the highest fee the marketplace may keep of a sale at price p
MaxFeeOf(p) == (p * 1000) \div 10000

\* C26: seller lower bound.  The rate never exceeds 1000; in every successful
\* sale at price p the marketplace keeps floor(p * r / 10000) for the rate r in
\* force at the time of the buy, which is at most floor(p * 1000 / 10000), and
\* the seller receives the rest, at least p - floor(p * 1000 / 10000); with
\* rate 0 the seller receives p, and when p * r < 10000 the fee is 0.
SellerLowerBound ==
    /\ [](marketplaceFee <= 1000)
    /\ [][\/ nSales' = nSales
          \/ \A s \in Accounts, t \in TokenIds, v \in Prices :
                BuyNFT(s, t, v) =>
                    LET p == listings[t].price
                        seller == listings[t].seller
                        r == marketplaceFee
                        kept == balance'[Mkt] - balance[Mkt]
                        received == balance'[seller] - balance[seller]
                    IN
                    /\ kept * 10000 <= p * r
                    /\ p * r < (kept + 1) * 10000
                    /\ kept <= MaxFeeOf(p)
                    /\ received = p - kept
                    /\ received >= p - MaxFeeOf(p)
                    /\ r = 0 => received = p
                    /\ p * r < 10000 => kept = 0]_vars

\* after a sale at price 1000 the marketplace holds 100: the sale was settled
\* at the rate 1000 the operator had set, not at the initial 250
SellerLowerBoundWitness ==
    \E t \in TokenIds :
        /\ nSales = 1
        /\ episode[t] = "Sold"
        /\ listings[t].price = 1000
        /\ marketplaceFee = 1000
        /\ balance[Mkt] = 100

----------------------------------------------------------------------------
(* Properties of the catalogue and of the listing episodes *)

\* C27 as stated: pagination edge cases.  For every offset and limit of the
\* unsigned type, also when their sum exceeds its maximum, getActiveListings
\* does not fail; it returns three empty arrays when offset is at least the
\* active count or limit is 0, and the active listings from position offset to
\* the end when offset + limit exceeds the active count.
PaginationEdgeCases ==
    \A offset \in PageArgs, limit \in PageArgs :
        LET page == getActiveListings(offset, limit)
            n == getActiveListingCount
            empty == << >>
        IN
        /\ page.err = "ok"
        /\ (offset >= n \/ limit = 0) =>
              /\ page.tokenIds = empty
              /\ page.sellers = empty
              /\ page.prices = empty
        /\ (offset < n /\ limit >= n - offset) =>
              page.tokenIds = SubSeq(ActiveInOrder, offset + 1, n)

Ended == {"Unlisted", "Sold", "Delisted"}

\* C28 as stated, the part on the failures: while an asset is Unlisted, Sold or
\* Delisted, buyNFT, delistNFT and updateListingPrice of it answer
\* ListingNotActive, whatever the caller and the arguments.
EndedEpisodeAnswersNotActive ==
    \A t \in TokenIds, s \in Accounts, p \in Prices :
        episode[t] \in Ended =>
            /\ BuyErr(s, t, p) = "ListingNotActive"
            /\ DelistErr(s, t) = "ListingNotActive"
            /\ UpdatePriceErr(s, t, p) = "ListingNotActive"

\* C28 amended: the episode of an asset moves only Unlisted -> Listed
\* (listNFT, mintAndList), Listed -> Sold (buyNFT), Listed -> Delisted
\* (delistNFT by the seller) and Sold/Delisted -> Listed (listNFT by the
\* current owner, who becomes the seller); while it is Unlisted, Sold or
\* Delisted, buyNFT, delistNFT and updateListingPrice with a positive price
\* answer ListingNotActive (with price 0 updateListingPrice answers
\* PriceMustBeGreaterThanZero); a deactivated row keeps its seller and price,
\* and getListing returns zero values exactly for a never-listed asset.
EpisodeMachine ==
    /\ [](\A t \in TokenIds :
            /\ episode[t] = "Listed" <=> listings[t].isActive
            /\ episode[t] = "Unlisted" <=> getListing(t) = <<NoAddr, 0, FALSE>>
            /\ episode[t] # "Unlisted" =>
                  listings[t].seller # NoAddr /\ listings[t].price > 0
            /\ episode[t] \in Ended =>
                  \A s \in Accounts :
                      /\ \A v \in Prices : BuyErr(s, t, v) = "ListingNotActive"
                      /\ DelistErr(s, t) = "ListingNotActive"
                      /\ \A p \in Prices \ {0} :
                            UpdatePriceErr(s, t, p) = "ListingNotActive"
                      /\ UpdatePriceErr(s, t, 0) = "PriceMustBeGreaterThanZero")
    /\ [][\/ episode' = episode
          \/ \A t \in TokenIds :
                episode'[t] # episode[t] =>
                    \/ /\ episode[t] = "Unlisted"
                       /\ episode'[t] = "Listed"
                       /\ listings'[t].seller = owners'[t]
                       /\ \E s \in Accounts, p \in Prices :
                             \/ ListNFT(s, t, p)
                             \/ \E u \in URIs : MintAndList(s, u, p)
                    \/ /\ episode[t] = "Listed"
                       /\ episode'[t] = "Sold"
                       /\ listings'[t] = [listings[t] EXCEPT !.isActive = FALSE]
                       /\ \E s \in Accounts, v \in Prices : BuyNFT(s, t, v)
                    \/ /\ episode[t] = "Listed"
                       /\ episode'[t] = "Delisted"
                       /\ listings'[t] = [listings[t] EXCEPT !.isActive = FALSE]
                       /\ DelistNFT(listings[t].seller, t)
                    \/ /\ episode[t] \in {"Sold", "Delisted"}
                       /\ episode'[t] = "Listed"
                       /\ listings'[t].seller = owners[t]
                       /\ \E p \in Prices : ListNFT(owners[t], t, p)]_vars

\* an asset that was sold at 1000 and, after a later listing at 30 and its
\* delisting, has a row that keeps the present owner as seller and the price 30
EpisodeMachineWitness ==
    \E t \in TokenIds :
        /\ episode[t] = "Delisted"
        /\ nSales = 1
        /\ listings[t].seller = owners[t]
        /\ listings[t].price = 30
        /\ balance[Mkt] = 25

\* C29: independence across assets.  A listNFT, updateListingPrice, delistNFT
\* or buyNFT of asset a leaves the row, the owner and the approvals of every
\* other asset as they were, and with them the answer listNFT gives any other
\* seller for any other asset; the row a listNFT writes is made of its own
\* arguments only and the index gains at most the id, at its end.  So two
\* listNFT calls of different sellers for different assets succeed in either
\* order and leave the same rows, with the two new index entries in the order
\* of the calls.
AssetsIndependent ==
    [][\/ UNCHANGED <<listings, owners, tokenApprovals>>
       \/ \A a \in Ids :
             (\/ listings'[a] # listings[a]
              \/ owners'[a] # owners[a]
              \/ tokenApprovals'[a] # tokenApprovals[a]) =>
                 /\ \A b \in Ids \ {a} :
                       /\ listings'[b] = listings[b]
                       /\ owners'[b] = owners[b]
                       /\ tokenApprovals'[b] = tokenApprovals[b]
                 /\ \A s \in CatalogSellers, p \in CatalogPrices :
                       (\/ ListNFT(s, a, p)
                        \/ UpdateListingPrice(s, a, p)
                        \/ DelistNFT(s, a)
                        \/ BuyNFT(s, a, p)) =>
                           /\ operatorApprovals' = operatorApprovals
                           /\ \A s2 \in CatalogSellers \ {s}, b \in Ids \ {a},
                                 p2 \in CatalogPrices :
                                    ListErr(s2, b, p2)' = ListErr(s2, b, p2)
                           /\ ListNFT(s, a, p) =>
                                 /\ listings'[a] = [seller |-> s, price |-> p,
                                                    isActive |-> TRUE]
                                 /\ listedTokenIds' =
                                       IF hasBeenListed[a] THEN listedTokenIds
                                       ELSE Append(listedTokenIds, a)]_vars

\* two assets listed by different sellers, the one minted later listed first
AssetsIndependentWitness ==
    /\ Len(listedTokenIds) >= 2
    /\ listedTokenIds[1] > listedTokenIds[2]
    /\ listings[listedTokenIds[1]].isActive
    /\ listings[listedTokenIds[2]].isActive
    /\ listings[listedTokenIds[1]].seller # listings[listedTokenIds[2]].seller
    /\ owners[listedTokenIds[1]] = listings[listedTokenIds[1]].seller
    /\ owners[listedTokenIds[2]] = listings[listedTokenIds[2]].seller

----------------------------------------------------------------------------
(* Properties of stale listings *)

\* C30: a buy succeeds only when the seller recorded in the listing owns the
\* asset at that moment and the marketplace is approved for it, per asset or
\* for all.  The buy of an active listing without approval (as mintAndList
\* leaves it) or of one whose seller has transferred the asset away fails and
\* changes nothing, also when the new owner has approved the marketplace; the
\* proceeds of a sale go to the account that owned the asset before it.
BuyNeedsOwningSeller ==
    /\ [](\A s \in Accounts, t \in TokenIds, v \in Prices :
            (\/ owners[t] # listings[t].seller
             \/ ~MarketplaceApproved(listings[t].seller, t)) =>
                BuyErr(s, t, v) # "ok")
    /\ [][\/ nSales' = nSales
          \/ \A s \in Accounts, t \in TokenIds, v \in Prices :
                BuyNFT(s, t, v) =>
                    LET was == owners[t] IN
                    /\ was = listings[t].seller
                    /\ MarketplaceApproved(was, t)
                    /\ balance'[was] =
                          balance[was] + (v - Fee(v, marketplaceFee))
                    /\ \A a \in AllAccounts \ {was, s} :
                          balance'[a] = balance[a]]_vars
    /\ [][\/ UNCHANGED vars
          \/ \A s \in Accounts, t \in TokenIds, v \in Prices :
                ~(/\ \/ owners[t] # listings[t].seller
                     \/ ~MarketplaceApproved(listings[t].seller, t)
                  /\ BuyNFT(s, t, v))]_vars

\* an active listing whose seller has given the asset to an account that has
\* approved the marketplace, and a buyer who can pay the price
BuyNeedsOwningSellerWitness ==
    \E t \in TokenIds, s \in Accounts :
        /\ listings[t].isActive
        /\ owners[t] # listings[t].seller
        /\ tokenApprovals[t] = Mkt
        /\ s # listings[t].seller
        /\ AcceptsToken(s)
        /\ CanPay(s, listings[t].price)
        /\ BuyErr(s, t, listings[t].price) = "ERC721IncorrectOwner"

====
